---- MODULE Spec2Model ----
(***************************************************************************)
(* RSA primitive layer of src/crypto/public_key/rsa.js: the shared         *)
(* blinding state, CRT decryption, encryption, and key generation (the     *)
(* in-process prime search and the Web Crypto delegate).                   *)
(*                                                                         *)
(* BigInteger values are modelled as integers.  The operators of the       *)
(* section "BigInteger" stand for the methods of jsbn.js that rsa.js       *)
(* calls; the remaining sections follow rsa.js line by line.               *)
(***************************************************************************)
EXTENDS Integers, Sequences, FiniteSets, TLC

VARIABLES
    rsa_blinding,  \* config.rsa_blinding
    blinder,       \* rsa.js:41
    unblinder,     \* rsa.js:42
    phase,         \* idle, called (an operation is issued), returned
    op,            \* the primitive operation issued last
    arg,           \* its arguments: [k |-> key, m |-> message]
    blinded,       \* the value blind() returned in it (Null: blind did not run)
    result,        \* its return value
    pc,            \* position of the generate call
    B,             \* generate: requested bit length
    E,             \* generate: public exponent, a hex string (sequence of digits)
    native,        \* window.crypto.subtle is present
    cbThrows,      \* the caller's callback throws when it is invoked
    key,           \* generate: the keyObject being filled
    keyGenOpt,     \* generate: the request handed to the platform service
    outerIters,    \* generate: runs of the outer for(;;) body
    errCalls,      \* callback(new Error(...)) invocations of this call
    keyCalls,      \* callback(null, key) invocations of this call
    delivered      \* the key handed to callback(null, key)

rsaVars == <<rsa_blinding, blinder, unblinder, phase, op, arg, blinded, result>>
genVars == <<pc, B, E, native, cbThrows, key, keyGenOpt, outerIters,
             errCalls, keyCalls, delivered>>
vars == <<rsaVars, genVars>>

Null == -1

----------------------------------------------------------------------------
(* Bounds of the model *)

\* moduli of the keys handed to the primitive operations
MaxModulus == 35
\* largest bit length B requested from generate
MaxBits == 10
\* cap of the counter of outer-loop runs
MaxOuterCount == 3

----------------------------------------------------------------------------
(* BigInteger (jsbn.js) *)

\* bits of one limb of a BigInteger (26, 28 or 30 by platform; the values of
\* the model fit one limb for each)
DB == 28

RECURSIVE Pow2(_)
Pow2(k) == IF k = 0 THEN 1 ELSE 2 * Pow2(k - 1)

RECURSIVE BitLength(_)
BitLength(x) == IF x <= 0 THEN 0 ELSE 1 + BitLength(x \div 2)

RECURSIVE Gcd(_, _)
Gcd(a, b) == IF b = 0 THEN a ELSE Gcd(b, a % b)

\* a.mod(m): the result is in [0, m) also for a negative a
Mod(a, m) == a % m

RECURSIVE PowMod(_, _, _)
PowMod(b, e, m) == IF e = 0 THEN 1 % m ELSE (b * PowMod(b, e - 1, m)) % m

\* b.modPow(e, m): an exponent of bit length 0 returns ONE at once
ModPow(b, e, m) == IF e <= 0 THEN 1 ELSE PowMod(b % m, e, m)

\* b.modPowInt(e, m): an exponent below 1 returns ONE
ModPowInt(b, e, m) == IF e < 1 THEN 1 ELSE PowMod(b % m, e, m)

\* a.modInverse(m): ZERO when a has no inverse modulo m
ModInverse(a, m) ==
    IF \E x \in 0..(m - 1) : (a * x) % m = 1 % m
    THEN CHOOSE x \in 0..(m - 1) : (a * x) % m = 1 % m
    ELSE 0

\* x.subtract(y)[0]: the low limb of the two's-complement difference, which is
\* written whenever an operand has a limb; a difference of two limbless values
\* (both zero) leaves it unset
LowLimb(x, y) == IF x = 0 /\ y = 0 THEN Null ELSE (x - y) % Pow2(DB)

\* a.isProbablePrime(t): values of the model lie in the table of small primes,
\* where the answer is exact
IsProbablePrime(x) == x > 1 /\ \A f \in 2..(x - 1) : x % f # 0

\* new BigInteger(bits, 1, rng): an odd integer of exactly `bits` bits (the top
\* bit forced), 1 when bits < 2
RandomCandidates(bits) ==
    IF bits < 2 THEN {1}
    ELSE {x \in Pow2(bits - 1)..(Pow2(bits) - 1) : x % 2 = 1}

\* random.getRandomBigIntegerInRange(min, max)
RandomBigIntegerInRange(min, max) == min..(max - 1)

----------------------------------------------------------------------------
(* Keys handed to the primitive operations *)

KeyPrimes == {x \in 3..MaxModulus : IsProbablePrime(x)}
Exponents == {3, 5}

\* the well-formed keys: p > q odd primes, d*e = 1 mod (p-1)(q-1), u = p^-1 mod q
Keys ==
    {[p |-> p, q |-> q, n |-> p * q, e |-> e,
      d |-> ModInverse(e, (p - 1) * (q - 1)), u |-> ModInverse(p, q)] :
        <<p, q, e>> \in {t \in KeyPrimes \X KeyPrimes \X Exponents :
            /\ t[1] > t[2]
            /\ t[1] * t[2] <= MaxModulus
            /\ Gcd((t[1] - 1) * (t[2] - 1), t[3]) = 1}}

----------------------------------------------------------------------------
(* Blinding state: rsa.js:41-56 *)

\* rsa.js:45-49, the values blind() may assign to unblinder: its square when
\* its bit length is that of n, a fresh draw from the random source otherwise
RefreshedUnblinders(unb, n) ==
    IF BitLength(unb) = BitLength(n)
    THEN {Mod(unb * unb, n)}
    ELSE RandomBigIntegerInRange(2, n)

\* rsa.js:50 without the modInverse
BlinderOf_NoInverse(unb, n, e) == ModPow(unb, e, n)

\* rsa.js:50
BlinderOf(unb, n, e) == ModPow(ModInverse(unb, n), e, n)

\* rsa.js:44-52, with r the refreshed unblinder: the new shared pair and the
\* value returned
blind(m, n, e, r) ==
    [unblinder |-> r,
     blinder   |-> BlinderOf(r, n, e),
     ret       |-> Mod(m * BlinderOf(r, n, e), n)]

\* rsa.js:54-56
unblind(t, n, unb) == Mod(t * unb, n)

----------------------------------------------------------------------------
(* Primitive operations: rsa.js:77-118 *)

\* rsa.js:81-93, the CRT part of decrypt
CrtCombine(m, d, p, q, u) ==
    LET xp == ModPow(Mod(m, p), Mod(d, p - 1), p)
        xq == ModPow(Mod(m, q), Mod(d, q - 1), q)
        t  == IF LowLimb(xq, xp) = 0
              THEN q - Mod((xp - xq) * u, q)
              ELSE Mod((xq - xp) * u, q)
    IN  t * p + xp

\* rsa.js:107-109
encrypt(m, e, n) == ModPowInt(m, e, n)

\* rsa.js:112-114
sign(m, d, n) == ModPow(m, d, n)

\* rsa.js:77-98, decrypt(m, n, e, d, p, q, u) for the key k
decrypt(m, k) ==
    IF rsa_blinding
    THEN \E r \in RefreshedUnblinders(unblinder, k.n) :
         \E b \in {blind(m, k.n, k.e, r)} :
            /\ unblinder' = b.unblinder
            /\ blinder' = b.blinder
            /\ blinded' = b.ret
            /\ result' = unblind(CrtCombine(b.ret, k.d, k.p, k.q, k.u),
                                 k.n, b.unblinder)
    ELSE /\ UNCHANGED <<blinder, unblinder>>
         /\ blinded' = Null
         /\ result' = CrtCombine(m, k.d, k.p, k.q, k.u)

\* the messages callers pass with the key k: 0 <= m < n
Messages(k) == 0..(k.n - 1)

\* no operation has been issued
NoArg == [k |-> [p |-> 0, q |-> 0, n |-> 0, e |-> 0, d |-> 0, u |-> 0], m |-> 0]

Operations == {"decrypt", "encrypt_decrypt", "blind_unblind"}

\* a caller issues an operation; its body runs later, atomically
Call ==
    /\ phase # "called"
    /\ \E o \in Operations : \E k \in Keys : \E m \in Messages(k) :
        /\ op' = o
        /\ arg' = [k |-> k, m |-> m]
    /\ phase' = "called"
    /\ blinded' = Null
    /\ result' = Null
    /\ UNCHANGED <<rsa_blinding, blinder, unblinder, genVars>>

\* decrypt(m, ...) runs
Decrypt ==
    /\ phase = "called" /\ op = "decrypt"
    /\ decrypt(arg.m, arg.k)
    /\ phase' = "returned"
    /\ UNCHANGED <<rsa_blinding, op, arg, genVars>>

\* decrypt(encrypt(m, e, n), ...) runs
EncryptDecrypt ==
    /\ phase = "called" /\ op = "encrypt_decrypt"
    /\ decrypt(encrypt(arg.m, arg.k.e, arg.k.n), arg.k)
    /\ phase' = "returned"
    /\ UNCHANGED <<rsa_blinding, op, arg, genVars>>

\* unblind(blind(m, n, e), n) runs
BlindUnblind ==
    /\ phase = "called" /\ op = "blind_unblind"
    /\ \E r \in RefreshedUnblinders(unblinder, arg.k.n) :
       \E b \in {blind(arg.m, arg.k.n, arg.k.e, r)} :
            /\ unblinder' = b.unblinder
            /\ blinder' = b.blinder
            /\ blinded' = b.ret
            /\ result' = unblind(b.ret, arg.k.n, b.unblinder)
    /\ phase' = "returned"
    /\ UNCHANGED <<rsa_blinding, op, arg, genVars>>

----------------------------------------------------------------------------
(* Key generation: rsa.js:122-227 *)

\* rsa.js:122-132, the "empty" keyObject
NoKey == [n |-> Null, e |-> 0, ee |-> Null, d |-> Null, p |-> Null,
          q |-> Null, dmp1 |-> Null, dmq1 |-> Null, u |-> Null]

\* parseInt(E, 16) and new BigInteger(E, 16): the value of a string of hex
\* digits (rsa.js:195-196, 175)
RECURSIVE ParseHex(_)
ParseHex(str) ==
    IF str = <<>> THEN 0
    ELSE 16 * ParseHex(SubSeq(str, 1, Len(str) - 1)) + str[Len(str)]

\* the value of a big-endian byte array (rsa.js:146, and BigInteger(hex, 16)
\* of util.hexstrdump(str), which writes each character as one byte)
RECURSIVE BytesValue(_)
BytesValue(bytes) ==
    IF bytes = <<>> THEN 0
    ELSE 256 * BytesValue(SubSeq(bytes, 1, Len(bytes) - 1)) + bytes[Len(bytes)]

\* rsa.js:146
PublicExponentBytes == <<1, 0, 1>>

\* no request has been made
NoKeyGenOpt == [modulusLength |-> 0, publicExponent |-> <<>>]

\* rsa.js:181-183, base64(base64url) on a string of character codes:
\* '-' (45) becomes '+' (43), '_' (95) becomes '/' (47)
base64(str) ==
    [i \in DOMAIN str |->
        IF str[i] = 45 THEN 43 ELSE IF str[i] = 95 THEN 47 ELSE str[i]]

\* rsa.js:174, 176-178: new BigInteger(util.hexstrdump(base64(field)), 16)
JwkField(str) == BytesValue(base64(str))

\* the JSON Web Keys the platform service exports: base64url strings
Jwks ==
    {[n |-> <<81, 45>>, d |-> <<45>>, p |-> <<65>>, q |-> <<95>>],
     [n |-> <<95>>, d |-> <<66, 81>>, p |-> <<103>>, q |-> <<119>>]}

\* the exponents callers pass: "3", "5", "6", "10001"
HexExponents == {<<3>>, <<5>>, <<6>>, <<1, 0, 0, 0, 1>>}
\* the bit lengths callers pass
BitLengths == 3..MaxBits

\* rsa.js:194
QS(b) == b \div 2

\* rsa.js:200 and 205 with the primality test left out
AcceptCandidate_NoPrimeTest(c, ee) == Gcd(c - 1, ee) = 1

\* rsa.js:200 and 205 with the gcd test left out
AcceptCandidate_NoGcd(c, ee) == IsProbablePrime(c)

\* rsa.js:200 and 205, the test that leaves a candidate loop
AcceptCandidate(c, ee) == Gcd(c - 1, ee) = 1 /\ IsProbablePrime(c)

\* rsa.js:216 with the comparison inverted
PhiCoprime_Inverted(phi, ee) == Gcd(phi, ee) # 1

\* rsa.js:216
PhiCoprime(phi, ee) == Gcd(phi, ee) = 1

\* rsa.js:208-212
SwapPQ(p, q) == IF p <= q THEN <<q, p>> ELSE <<p, q>>

\* rsa.js:213-221
Finalize(k, p, q) ==
    [k EXCEPT !.p = p, !.q = q, !.n = p * q,
              !.d = ModInverse(k.ee, (p - 1) * (q - 1)),
              !.dmp1 = Mod(ModInverse(k.ee, (p - 1) * (q - 1)), p - 1),
              !.dmq1 = Mod(ModInverse(k.ee, (p - 1) * (q - 1)), q - 1),
              !.u = ModInverse(p, q)]

\* rsa.js:136-159 and 192-196: generate(B, E, callback) is called
Generate ==
    /\ pc \in {"idle", "done"}
    /\ \E b \in BitLengths : \E e \in HexExponents :
       \E nat \in BOOLEAN : \E th \in BOOLEAN :
        /\ B' = b
        /\ E' = e
        /\ native' = nat
        /\ cbThrows' = th
        /\ IF nat
           THEN /\ keyGenOpt' = [modulusLength |-> b,
                                 publicExponent |-> PublicExponentBytes]
                /\ key' = NoKey
                /\ outerIters' = 0
                /\ pc' = "generateKey"
           ELSE /\ keyGenOpt' = NoKeyGenOpt
                /\ key' = [NoKey EXCEPT !.e = ParseHex(e), !.ee = ParseHex(e)]
                /\ outerIters' = 1
                /\ pc' = "loop_p"
    /\ errCalls' = 0
    /\ keyCalls' = 0
    /\ delivered' = NoKey
    /\ UNCHANGED rsaVars

\* rsa.js:198-202, one run of the first candidate loop drawing c
DrawP(c) ==
    /\ pc = "loop_p"
    /\ c \in RandomCandidates(B - QS(B))
    /\ key' = [key EXCEPT !.p = c]
    /\ pc' = IF AcceptCandidate(c, key.ee) THEN "loop_q" ELSE "loop_p"
    /\ UNCHANGED <<B, E, native, cbThrows, keyGenOpt, outerIters, errCalls,
                   keyCalls, delivered, rsaVars>>

\* rsa.js:203-207, one run of the second candidate loop drawing c
DrawQ(c) ==
    /\ pc = "loop_q"
    /\ c \in RandomCandidates(QS(B))
    /\ key' = [key EXCEPT !.q = c]
    /\ pc' = IF AcceptCandidate(c, key.ee) THEN "check" ELSE "loop_q"
    /\ UNCHANGED <<B, E, native, cbThrows, keyGenOpt, outerIters, errCalls,
                   keyCalls, delivered, rsaVars>>

AllCandidates == UNION {RandomCandidates(b) : b \in 0..MaxBits}

DrawPAny == \E cand \in AllCandidates : DrawP(cand)
DrawQAny == \E cand \in AllCandidates : DrawQ(cand)

\* the draws that leave the loops
DrawPAccepted ==
    /\ pc = "loop_p"
    /\ \E cand \in {x \in RandomCandidates(B - QS(B)) :
                            AcceptCandidate(x, key.ee)} : DrawP(cand)
DrawQAccepted ==
    /\ pc = "loop_q"
    /\ \E cand \in {x \in RandomCandidates(QS(B)) :
                            AcceptCandidate(x, key.ee)} : DrawQ(cand)

\* rsa.js:208-226: the swap, the test of phi, then either the final fields
\* and callback(null, key) or another run of the outer loop
SwapAndFinish ==
    /\ pc = "check"
    /\ \E pq \in {SwapPQ(key.p, key.q)} :
        IF PhiCoprime((pq[1] - 1) * (pq[2] - 1), key.ee)
        THEN /\ key' = Finalize(key, pq[1], pq[2])
             /\ delivered' = key'
             /\ keyCalls' = keyCalls + 1
             /\ pc' = "done"
             /\ UNCHANGED outerIters
        ELSE /\ key' = [key EXCEPT !.p = pq[1], !.q = pq[2]]
             /\ outerIters' = IF outerIters < MaxOuterCount
                              THEN outerIters + 1 ELSE outerIters
             /\ pc' = "loop_p"
             /\ UNCHANGED <<delivered, keyCalls>>
    /\ UNCHANGED <<B, E, native, cbThrows, keyGenOpt, errCalls, rsaVars>>

\* rsa.js:154-155, 165-169: generateKey resolves, onGenerated asks for the
\* export and the first then() follows the export's promise
GenerateKeyResolved ==
    /\ pc = "generateKey"
    /\ pc' = "exportKey"
    /\ UNCHANGED <<B, E, native, cbThrows, key, keyGenOpt, outerIters,
                   errCalls, keyCalls, delivered, rsaVars>>

\* rsa.js:155, 161-163: generateKey is rejected and the first onError calls
\* callback(new Error(...)); the promise of the first then() is fulfilled with
\* undefined when the callback returns and rejected when it throws
GenerateKeyRejected ==
    /\ pc = "generateKey"
    /\ errCalls' = errCalls + 1
    /\ pc' = IF cbThrows THEN "then1_rejected" ELSE "then1_undefined"
    /\ UNCHANGED <<B, E, native, cbThrows, key, keyGenOpt, outerIters,
                   keyCalls, delivered, rsaVars>>

\* rsa.js:156, 171-174: onExported(undefined) throws a TypeError at jwk.n,
\* before it reaches the callback
OnExportedUndefined ==
    /\ pc = "then1_undefined"
    /\ pc' = "done"
    /\ UNCHANGED <<B, E, native, cbThrows, key, keyGenOpt, outerIters,
                   errCalls, keyCalls, delivered, rsaVars>>

\* rsa.js:168: the export is rejected, which rejects the first then()
ExportKeyRejected ==
    /\ pc = "exportKey"
    /\ pc' = "then1_rejected"
    /\ UNCHANGED <<B, E, native, cbThrows, key, keyGenOpt, outerIters,
                   errCalls, keyCalls, delivered, rsaVars>>

\* rsa.js:156, 161-163: the onError of the second then()
OnErrorSecond ==
    /\ pc = "then1_rejected"
    /\ errCalls' = errCalls + 1
    /\ pc' = "done"
    /\ UNCHANGED <<B, E, native, cbThrows, key, keyGenOpt, outerIters,
                   keyCalls, delivered, rsaVars>>

\* rsa.js:171-186: the export resolves with jwk and onExported runs
ExportKeyResolved ==
    /\ pc = "exportKey"
    /\ \E jwk \in Jwks :
        key' = [NoKey EXCEPT !.n = JwkField(jwk.n),
                             !.ee = ParseHex(E),
                             !.d = JwkField(jwk.d),
                             !.p = JwkField(jwk.p),
                             !.q = JwkField(jwk.q),
                             !.u = ModInverse(JwkField(jwk.p), JwkField(jwk.q))]
    /\ delivered' = key'
    /\ keyCalls' = keyCalls + 1
    /\ pc' = "done"
    /\ UNCHANGED <<B, E, native, cbThrows, keyGenOpt, outerIters, errCalls,
                   rsaVars>>

----------------------------------------------------------------------------
(* Specifications *)

RsaIdle ==
    /\ blinder = 0
    /\ unblinder = 0
    /\ phase = "idle"
    /\ op = "none"
    /\ arg = NoArg
    /\ blinded = Null
    /\ result = Null

GenIdle ==
    /\ pc = "idle"
    /\ B = 0
    /\ E = <<>>
    /\ native = FALSE
    /\ cbThrows = FALSE
    /\ key = NoKey
    /\ keyGenOpt = NoKeyGenOpt
    /\ outerIters = 0
    /\ errCalls = 0
    /\ keyCalls = 0
    /\ delivered = NoKey

\* the primitive operations on the shared blinding state
Init ==
    /\ rsa_blinding \in BOOLEAN
    /\ RsaIdle
    /\ GenIdle

Next == Call \/ Decrypt \/ EncryptDecrypt \/ BlindUnblind

Spec == Init /\ [][Next]_vars

\* calls of generate
InitGen ==
    /\ rsa_blinding = TRUE
    /\ RsaIdle
    /\ GenIdle

NextGen ==
    \/ Generate
    \/ DrawPAny
    \/ DrawQAny
    \/ SwapAndFinish
    \/ GenerateKeyResolved
    \/ GenerateKeyRejected
    \/ OnExportedUndefined
    \/ ExportKeyRejected
    \/ OnErrorSecond
    \/ ExportKeyResolved

SpecGen == InitGen /\ [][NextGen]_vars

\* the search runs on (generate is synchronous code) and the random source is
\* fair: a candidate that leaves a loop is eventually drawn
FairSpecGen ==
    /\ SpecGen
    /\ WF_vars(DrawPAccepted)
    /\ WF_vars(DrawQAccepted)
    /\ WF_vars(SwapAndFinish)

----------------------------------------------------------------------------
(* Claims about the primitive operations, checked under Spec *)

Returned(o) == phase = "returned" /\ op = o

\* m^d mod n computed directly
Naive(m, d, n) == PowMod(m % n, d, n)

\* C1: for every well-formed key and every 0 <= m < n, decrypt returns
\* m^d mod n, with config.rsa_blinding enabled and with it disabled.
C1_DecryptEqualsNaive ==
    Returned("decrypt") => result = Naive(arg.m, arg.k.d, arg.k.n)

\* C1 with blinding disabled only: the CRT combination alone
C1_CrtEqualsNaive ==
    (Returned("decrypt") /\ ~rsa_blinding)
        => result = Naive(arg.m, arg.k.d, arg.k.n)

\* C2: decrypt(encrypt(m, e, n), n, e, d, p, q, u) = m for every valid key and
\* every 0 <= m < n, m = 0 and m = n - 1 included.
C2_EncryptDecryptRoundTrip ==
    Returned("encrypt_decrypt") => result = arg.m

\* C3: blinded decryptions issued in any order and with any keys, each running
\* blind, the private operation and unblind atomically on the shared pair,
\* each return m^d mod n for their own key.
C3_SerializedBlindedDecrypt ==
    (phase = "returned" /\ op \in {"decrypt", "encrypt_decrypt"} /\ rsa_blinding)
        => result = Naive(IF op = "decrypt" THEN arg.m
                          ELSE encrypt(arg.m, arg.k.e, arg.k.n),
                          arg.k.d, arg.k.n)

\* C4 as stated: after any earlier refreshes, unblind(blind(m, n, e), n) = m.
C4_BlindUnblindIdentity ==
    Returned("blind_unblind") => result = arg.m

\* C4 amended: the mask blind() applies is removed by unblind() after the
\* private operation, not before it: when the refreshed unblinder is
\* invertible modulo n, blind(m, n, e) * unblinder^e = m (mod n) and
\* unblind(blind(m, n, e)^d mod n, n) = m^d mod n; when it is not invertible,
\* blind returns 0.
C4_BlindPrivateOpUnblind ==
    (phase = "returned" /\ blinded # Null) =>
        LET k  == arg.k
            m0 == IF op = "encrypt_decrypt" THEN encrypt(arg.m, k.e, k.n)
                  ELSE arg.m
        IN  IF Gcd(unblinder, k.n) = 1
            THEN /\ blinder = BlinderOf(unblinder, k.n, k.e)
                 /\ (blinded * PowMod(unblinder, k.e, k.n)) % k.n = m0
                 /\ unblind(sign(blinded, k.d, k.n), k.n, unblinder)
                        = Naive(m0, k.d, k.n)
            ELSE blinded = 0

\* C4 witness: a blind/unblind round trip with an invertible unblinder that
\* does not give m back
C4_Witness ==
    /\ Returned("blind_unblind")
    /\ Gcd(unblinder, arg.k.n) = 1
    /\ unblinder > 1
    /\ arg.m > 0
    /\ result # arg.m

----------------------------------------------------------------------------
(* Claims about generate, checked under SpecGen and FairSpecGen *)

\* the in-process search has passed a key to the callback
SearchDelivered == ~native /\ keyCalls > 0

\* the platform service's key has been passed to the callback
NativeDelivered == native /\ keyCalls > 0

IsPrime(x) == x > 1 /\ \A f \in 2..(x - 1) : x % f # 0

\* C5: every key the in-process search passes to the callback has p > q, for
\* every bit length B (even B included) and every sequence of draws.
C5_PGreaterThanQ ==
    SearchDelivered => delivered.p > delivered.q

C7_CallbackAtMostOnce ==
    /\ errCalls + keyCalls <= 1
    /\ ~(errCalls > 0 /\ keyCalls > 0)

\* what holds of the callback whatever it does: never a key and an Error; and
\* at most one invocation when it returns normally
CallbackOnceWhenItReturns ==
    /\ ~(errCalls > 0 /\ keyCalls > 0)
    /\ ~cbThrows => errCalls + keyCalls <= 1

\* C8: on the native path the key is requested with public exponent 65537 and
\* the key passed to the callback carries public exponent 65537, not E.
C8_NativeExponentIs65537 ==
    /\ native /\ pc # "idle" => BytesValue(keyGenOpt.publicExponent) = 65537
    /\ NativeDelivered => delivered.ee = 65537

\* the part of C8 that holds: the request always names 65537
NativeRequests65537 ==
    native /\ pc # "idle" => BytesValue(keyGenOpt.publicExponent) = 65537

\* B and E for which both candidate loops have a value that leaves them
SearchCanSucceed ==
    /\ \E c \in RandomCandidates(B - QS(B)) :
            IsPrime(c) /\ Gcd(c - 1, ParseHex(E)) = 1
    /\ \E c \in RandomCandidates(QS(B)) :
            IsPrime(c) /\ Gcd(c - 1, ParseHex(E)) = 1

InSearch == ~native /\ pc \in {"loop_p", "loop_q", "check"}

\* C9: under a fair random source, and for B and E for which suitable primes
\* exist, the in-process search leaves both candidate loops and the outer loop
\* and invokes the callback with a key.
C9_SearchTerminates ==
    (InSearch /\ SearchCanSucceed) ~> (pc = "done" /\ SearchDelivered)

\* C9 witness: a search for a first prime of 3 bits or more has ended in the
\* callback
C9_Witness ==
    /\ pc = "done"
    /\ SearchDelivered
    /\ SearchCanSucceed
    /\ B - QS(B) >= 3

\* C10: once both candidate loops have accepted p and q, gcd((p-1)*(q-1), e)
\* is 1: the restart branch is never taken and the outer loop body runs
\* exactly once per call.
C10_NoRestart ==
    /\ pc = "check" => Gcd((key.p - 1) * (key.q - 1), key.ee) = 1
    /\ InSearch => outerIters = 1
    /\ SearchDelivered => outerIters = 1

\* C10 witness: both loops have accepted their candidates, for an exponent
\* that rejects some primes
C10_Witness ==
    /\ pc = "check"
    /\ key.ee = 3
    /\ key.p > 3
    /\ key.q > 3

====
